---- MODULE Spec2Model ----
(***************************************************************************)
(* Model of the chess overlay: the thread-safe OverlayDispatcher            *)
(* (dispatcher.py), the MoveDisplayData value (models.py) and the           *)
(* overlay window DraggableOverlay (window.py: auto-hide, animations, drag) *)
(* and the configuration OverlayConfig with its file (config.py).           *)
(*                                                                         *)
(* Threads run the Python code statement by statement (pc); the Qt signal   *)
(* move_received is connected with the default AutoConnection: an emit from *)
(* the thread the receiver lives in calls the slot inline, an emit from any *)
(* other thread posts an event to the receiver thread's event queue.        *)
(***************************************************************************)
EXTENDS Integers, Sequences, FiniteSets, TLC

\* ---------------------------------------------------------------- bounds
MaxDispatch == 3
MaxBind == 2
MaxLabelled == 2
DelayTicks == 2
MaxIdle == 2 * DelayTicks + 1
MaxReload == 2
MaxFair == 2

\* --------------------------------------------------------------- threads
UI == "ui"
Producers == {"p1", "p2"}
Threads == {UI} \cup Producers
None == "none"

\* ---------------------------------------------------------------- labels
\* models.py:29
valid_labels ==
    {"brilliant", "best", "excellent", "good", "inaccuracy", "mistake", "blunder", "forced"}

\* The closed label set of the specification (spec.md section 3).
ClosedLabels == valid_labels \cup {"theory", "miss", "great"}

\* Labels a caller may try: the closed set, plus strings outside it
\* (models.py:60 tries "invalid").
LabelInputs == ClosedLabels \cup {"invalid", "BEST", ""}

\* dispatcher.py:111-116, the labels the background thread sends in turn.
TestMoves == <<"brilliant", "best", "inaccuracy", "blunder">>

\* test_overlay_simple.py:25-34, the labels shown in turn.
test_moves ==
    <<"brilliant", "best", "excellent", "good", "inaccuracy", "mistake", "blunder", "forced">>

\* test_overlay_simple.py:25-34 (dispatcher.py:111-116 has four of them): the
\* best move and the opponent's best reply each test update carries; the
\* reply of "forced" is None.
test_best_move ==
    [brilliant |-> "Nxe5", best |-> "e4", excellent |-> "Bc4", good |-> "O-O",
     inaccuracy |-> "Qh5", mistake |-> "f3", blunder |-> "Ke2", forced |-> "Kg1"]
test_opponent_best_move ==
    [brilliant |-> "Qd4", best |-> "Nc6", excellent |-> "Bb4", good |-> "d5",
     inaccuracy |-> "Nf6", mistake |-> "Qh4+", blunder |-> "Qxf2#", forced |-> None]

\* Values a caller may pass for best_move and for opponent_best_move.
MoveTexts == {None, "", "e4"}

\* Python truth of an Optional[str]: None and "" are false.
Truthy(text) == text # None /\ text # ""

PostInitAcceptsAll(label) == TRUE

\* MoveDisplayData.__post_init__: TRUE when construction succeeds, FALSE when
\* it raises ValueError.
PostInit(label) == label \in valid_labels

\* ---------------------------------------------------------- configuration
\* OverlayConfig, the fields the model follows; config.py:25-27, 18.
DefaultConfig ==
    [position_x |-> 100, position_y |-> 100, lock_position |-> FALSE, icon_size |-> 32]

\* Positions a stored file may hold, and positions a drag may end at.
StoredPositions == {<<100, 100>>, <<250, 40>>}
DragTargets == {<<0, 0>>, <<-20, 130>>}

\* Configurations a file may hold: icon_size 15 fails validate.
StoredConfigs ==
    {[position_x |-> p[1], position_y |-> p[2], lock_position |-> l, icon_size |-> i] :
        p \in StoredPositions, l \in BOOLEAN, i \in {15, 32, 48}}

\* The file: missing, not readable as JSON, or a JSON object holding the
\* fields `data`, with a key that is no OverlayConfig field when `extra`.
FileMissing == [kind |-> "missing"]
FileGarbage == [kind |-> "garbage"]
Json(config, extra) == [kind |-> "json", data |-> config, extra |-> extra]
FileContents ==
    {FileMissing, FileGarbage} \cup {Json(c, e) : c \in StoredConfigs, e \in BOOLEAN}

\* OverlayConfig.validate; of the fields it tests the model has icon_size.
validate(config) == 16 <= config.icon_size /\ config.icon_size <= 64

\* OverlayConfig.save: the file written for a configuration.
save(config) == Json(config, FALSE)

load_Unvalidated(f) ==
    IF f.kind = "missing"
    THEN [config |-> DefaultConfig, file |-> save(DefaultConfig)]
    ELSE IF f.kind # "json" \/ f.extra
    THEN [config |-> DefaultConfig, file |-> f]
    ELSE [config |-> f.data, file |-> f]

\* OverlayConfig.load: the configuration returned and the file left behind.
\* json.load raises for a file that is no JSON, cls(**data) raises TypeError
\* for a key that is no field; both end in `except Exception`.
load(f) ==
    IF f.kind = "missing"
    THEN [config |-> DefaultConfig, file |-> save(DefaultConfig)]
    ELSE IF f.kind # "json" \/ f.extra
    THEN [config |-> DefaultConfig, file |-> f]
    ELSE IF ~validate(f.data)
    THEN [config |-> DefaultConfig, file |-> f]
    ELSE [config |-> f.data, file |-> f]

\* The record of one load call.
Loaded(f) == [before |-> f, config |-> load(f).config, after |-> load(f).file]

\* Country codes; config.py:44.
Countries == {"US", "GB", "VN"}

is_country_allowed_AllowFirst(country_code, allowed, blocked) ==
    IF allowed # {} /\ country_code \in allowed
    THEN TRUE
    ELSE IF blocked # {} /\ country_code \in blocked
    THEN FALSE
    ELSE allowed = {}

\* OverlayConfig.is_country_allowed; the two lists as sets of codes.
is_country_allowed(country_code, allowed, blocked) ==
    IF blocked # {} /\ country_code \in blocked
    THEN FALSE
    ELSE IF allowed = {}
    THEN TRUE
    ELSE country_code \in allowed

\* window.py:256, the overlay starts its slide-up 30 pixels lower.
SlideOffset == 30

\* The desktop the overlay is on, self.screen().geometry(), and the size of
\* the overlay, config.py:19-20 (setFixedSize, window.py:44).
ScreenSize == <<1920, 1080>>
OverlaySize == <<400, 250>>

\* QSpinBox.setValue on pos_x_spin and pos_y_spin, whose range is
\* 0..9999 (config_gui.py:193, 202): the value is clamped into the range.
SpinMax == 9999
SpinValue(v) == IF v < 0 THEN 0 ELSE IF v > SpinMax THEN SpinMax ELSE v

VARIABLES
    pc,            \* per thread: the statement it is at
    arg,           \* per thread: the MoveDisplayData it is handling
    todo,          \* per thread: inline slot calls left in the running emit
    instance,      \* _dispatcher_instance: the number of the object, 0 is None
    dispatcher_lock, \* _dispatcher_lock: its holder, or None
    got,           \* per thread: the object its last _get_dispatcher call returned
    lock,          \* OverlayDispatcher._lock: its holder, or None
    connected,     \* OverlayDispatcher._connected
    overlayRef,    \* OverlayDispatcher._overlay is set
    nconn,         \* connections of move_received to display_move
    overlayThread, \* thread the overlay widget lives in; None: not created
    queue,         \* per thread: posted slot calls, in posting order
    auto_hide_delay, \* config.auto_hide_delay, in ticks
    visible,       \* the overlay widget is shown
    current_data,  \* DraggableOverlay.current_data
    timerLeft,     \* hide_timer: ticks to the next timeout, -1 inactive
    anim,          \* self.animation: "none", "show" (fade in), "hide" (fade out)
    best_move_container, \* the best-move section is not hidden
    opp_move_container,  \* the opponent section is not hidden
    file,          \* contents of overlay/overlay_config.json
    configs,       \* the OverlayConfig objects made so far, by object number
    CONFIG,        \* config.CONFIG: the number of the global object
    allowed_countries, \* CONFIG.allowed_countries
    blocked_countries, \* CONFIG.blocked_countries
    show_best_move,    \* config.show_best_move
    show_opponent_best, \* config.show_opponent_best
    editor,        \* the ConfigEditor window: its config object (0: not open),
                   \* pos_x_spin and pos_y_spin, lock_position_check; and the
                   \* latest save_settings: whether a _save_position had run since
                   \* the editor loaded (drag), the position on file after it,
                   \* the position that _save_position had stored
    overlayConfig, \* DraggableOverlay.config: the number of its object, 0 before
    pos,           \* the overlay window's position <<x, y>>
    slide,         \* self.pos_animation: <<end position>> while running, else <<>>
    dragging,      \* DraggableOverlay.dragging
    pressed,       \* the mouse button held down on the overlay, or None
    \* history
    loaded,        \* the latest OverlayConfig.load: file before, result, file after
    reloads,       \* reload_config calls made
    countryCheck,  \* the latest is_country_allowed call: code and result
    lastRelease,   \* the latest left-button release: window position, position on
                   \* file, whether the editor had loaded its fields before
    lastSave,      \* the latest _save_position, the same
    placed,        \* the overlay's construction: window position, file at that time
    sent,          \* per thread: dispatch calls made
    created,       \* OverlayDispatcher objects constructed
    rendered,      \* display_move calls in order: [u, by]
    accepted,      \* updates whose dispatch saw _connected = TRUE, in lock order
    unbound,       \* updates whose dispatch saw _connected = FALSE
    lastConstruct, \* <<label, ok>> of the latest MoveDisplayData(...) attempt
    binds,         \* connect_overlay calls started
    bindsDone,     \* connect_overlay calls returned
    boundBy,       \* thread whose connect_overlay set _connected
    afterRebind,   \* updates dispatched after two connect_overlay calls had returned
    autoHides,     \* _auto_hide calls since the last display_move
    hides,         \* hide() calls (fade-out completions) since the last display_move
    sinceRender,   \* ticks since the last display_move
    prior          \* what the last display_move found: ticks (gap) and _auto_hide
                   \* calls (hid) since the call before, visible, hide_timer active

dvars == <<instance, lock, connected, overlayRef, nconn, overlayThread>>
gvars == <<dispatcher_lock, got>>
cvars == <<file, configs, CONFIG, allowed_countries, blocked_countries, loaded, reloads,
           countryCheck, show_best_move, show_opponent_best, editor>>
mvars == <<overlayConfig, dragging, pressed, lastRelease, lastSave, placed>>
pvars == <<pos, slide>>
wvars == <<visible, current_data, timerLeft, anim, best_move_container, opp_move_container>>
tvars == <<autoHides, hides, sinceRender, prior>>
hvars == <<sent, created, rendered, accepted, unbound, lastConstruct, binds, bindsDone, boundBy,
           afterRebind>>
vars == <<pc, arg, todo, queue, auto_hide_delay, dvars, gvars, cvars, mvars, pvars, wvars, tvars,
          hvars>>

\* A MoveDisplayData(label, best_move, opponent_best_move), tagged with the
\* thread that built it and its number among that thread's updates.
MoveData(t, k, l, b, o) ==
    [src |-> t, seq |-> k, label |-> l, best_move |-> b, opponent_best_move |-> o]
NoData == MoveData(None, 0, None, None, None)
\* The update the test callers build for a label: the moves of the test
\* table, "e4" and no reply for a label the table does not have.
MoveDisplayData(t, k, l) ==
    IF l \in DOMAIN test_best_move
    THEN MoveData(t, k, l, test_best_move[l], test_opponent_best_move[l])
    ELSE MoveData(t, k, l, "e4", None)

RECURSIVE SumOver(_, _)
SumOver(f, S) == IF S = {} THEN 0
                 ELSE LET x == CHOOSE y \in S : TRUE IN f[x] + SumOver(f, S \ {x})
TotalSent == SumOver(sent, Threads)

RECURSIVE Copies(_, _)
Copies(x, n) == IF n <= 0 THEN <<>> ELSE <<x>> \o Copies(x, n - 1)

\* The program before any call, whatever the configuration is.
InitProgram ==
    /\ pc = [t \in Threads |-> "idle"]
    /\ arg = [t \in Threads |-> NoData]
    /\ todo = [t \in Threads |-> 0]
    /\ instance = 0
    /\ dispatcher_lock = None
    /\ got = [t \in Threads |-> 0]
    /\ lock = None
    /\ connected = FALSE
    /\ overlayRef = FALSE
    /\ nconn = 0
    /\ overlayThread = None
    /\ queue = [t \in Threads |-> <<>>]
    /\ auto_hide_delay \in {0, DelayTicks}
    /\ visible = FALSE
    /\ current_data = NoData
    /\ timerLeft = -1
    /\ anim = "none"
    /\ sent = [t \in Threads |-> 0]
    /\ created = 0
    /\ rendered = <<>>
    /\ accepted = <<>>
    /\ unbound = {}
    /\ lastConstruct = <<None, FALSE>>
    /\ binds = 0
    /\ bindsDone = 0
    /\ boundBy = None
    /\ afterRebind = {}
    /\ autoHides = 0
    /\ hides = 0
    /\ sinceRender = 0
    /\ prior = [gap |-> 0, hid |-> 0, visible |-> FALSE, armed |-> FALSE]
    /\ overlayConfig = 0
    /\ pos = <<0, 0>>
    /\ slide = <<>>
    /\ dragging = FALSE
    /\ pressed = None
    /\ reloads = 0
    /\ countryCheck = [code |-> None, allowed |-> TRUE]
    /\ lastRelease = [any |-> FALSE, pos |-> <<0, 0>>, saved |-> <<0, 0>>, editorOpen |-> FALSE]
    /\ lastSave = lastRelease
    /\ best_move_container = TRUE
    /\ opp_move_container = TRUE
    /\ editor = [config |-> 0, position |-> <<0, 0>>, lock_position |-> FALSE,
                 saved |-> [any |-> FALSE, drag |-> FALSE, file |-> <<0, 0>>, stored |-> <<0, 0>>]]
    /\ placed = [any |-> FALSE, pos |-> <<0, 0>>, file |-> FileMissing]

\* config.py:31-32, both sections are enabled by default.
ShowDefaults ==
    /\ show_best_move = TRUE
    /\ show_opponent_best = TRUE

\* `CONFIG = OverlayConfig.load()` has run at the import of config.py
\* (line 241) on the file `f`.
Imported(f) ==
    /\ loaded = Loaded(f)
    /\ file = loaded.after
    /\ configs = <<loaded.config>>
    /\ CONFIG = 1

\* A first run: no configuration file yet, no country lists.
Init ==
    /\ InitProgram
    /\ Imported(FileMissing)
    /\ allowed_countries = {}
    /\ blocked_countries = {}
    /\ ShowDefaults

\* A run that finds any configuration file.
InitConfig ==
    /\ InitProgram
    /\ \E f \in FileContents : Imported(f)
    /\ allowed_countries = {}
    /\ blocked_countries = {}
    /\ ShowDefaults

\* A first run with each of the two sections enabled or not.
InitSections ==
    /\ InitProgram
    /\ Imported(FileMissing)
    /\ allowed_countries = {}
    /\ blocked_countries = {}
    /\ show_best_move \in BOOLEAN
    /\ show_opponent_best \in BOOLEAN

\* A run with any country lists in the configuration.
InitCountry ==
    /\ InitProgram
    /\ Imported(FileMissing)
    /\ allowed_countries \in SUBSET Countries
    /\ blocked_countries \in SUBSET Countries
    /\ ShowDefaults

\* ------------------------------------------------------------ the overlay

\* window.py:238-239: hide_timer.start(delay) only when the delay is > 0;
\* hide_timer.stop() at line 193 has already run.
HideTimerKeepsRunning(delay) ==
    IF delay > 0 THEN (IF timerLeft >= 0 THEN timerLeft ELSE delay) ELSE -1

HideTimerStartsAlways(delay) == delay

HideTimerAfterRender(delay) == IF delay > 0 THEN delay ELSE -1

\* window.py:27: hide_timer is a plain QTimer(); setSingleShot is never
\* called, so after a timeout the timer runs again with the same interval.
HideTimerAfterTimeout(delay) == delay

SectionShownKeepsShown(text, enabled, shown) == shown \/ (Truthy(text) /\ enabled)

\* display_move, lines 219-232: a section's container is shown when the
\* update has the text and the section is enabled, and hidden otherwise,
\* whatever it was (`shown`).
SectionShown(text, enabled, shown) == Truthy(text) /\ enabled

ShowAnimationKeepsFadeOut(running) == IF running = "hide" THEN "hide" ELSE "show"

\* _animate_show, lines 247-252: self.animation becomes the new fade-in.
\* The animation it held (`running`) has no parent and no other reference,
\* so it is destroyed there and its finished signal is never emitted.
ShowAnimation(running) == "show"

\* DraggableOverlay.display_move, run by thread `by`. _animate_show shows
\* the window, starts the fade-in, moves the window SlideOffset down and
\* starts pos_animation back to where the window was (lines 254-263).
display_move(data, by) ==
    /\ current_data' = data
    /\ visible' = TRUE
    /\ best_move_container' = SectionShown(data.best_move, show_best_move, best_move_container)
    /\ opp_move_container' =
          SectionShown(data.opponent_best_move, show_opponent_best, opp_move_container)
    /\ anim' = ShowAnimation(anim)
    /\ slide' = <<pos>>
    /\ pos' = <<pos[1], pos[2] + SlideOffset>>
    /\ timerLeft' = HideTimerAfterRender(auto_hide_delay)
    /\ rendered' = Append(rendered, [u |-> data, by |-> by])
    /\ prior' = [gap |-> sinceRender, hid |-> autoHides, visible |-> visible,
                 armed |-> timerLeft >= 0]
    /\ autoHides' = 0
    /\ hides' = 0
    /\ sinceRender' = 0

\* One tick of time passes. A timeout that is due stays due until the event
\* loop of the UI thread delivers it.
Tick ==
    /\ sinceRender < MaxIdle
    /\ sinceRender' = sinceRender + 1
    /\ timerLeft' = IF timerLeft > 0 THEN timerLeft - 1 ELSE timerLeft
    /\ UNCHANGED <<pc, arg, todo, queue, auto_hide_delay, gvars, cvars, mvars, pvars, dvars, hvars,
                   visible, current_data, anim, best_move_container, opp_move_container,
                   autoHides, hides, prior>>

\* hide_timer.timeout -> _auto_hide -> _animate_hide, on the UI thread's
\* event loop.
Timeout ==
    /\ pc[UI] = "idle"
    /\ timerLeft = 0
    /\ timerLeft' = HideTimerAfterTimeout(auto_hide_delay)
    /\ anim' = "hide"
    /\ autoHides' = autoHides + 1
    /\ UNCHANGED <<pc, arg, todo, queue, auto_hide_delay, gvars, cvars, mvars, pvars, dvars, hvars,
                   visible, current_data, best_move_container, opp_move_container, hides,
                   sinceRender, prior>>

\* The running QPropertyAnimation finishes; the fade-out's finished signal
\* is connected to hide() (window.py:272).
AnimFinished ==
    /\ pc[UI] = "idle"
    /\ anim # "none"
    /\ anim' = "none"
    /\ visible' = IF anim = "hide" THEN FALSE ELSE visible
    /\ hides' = IF anim = "hide" THEN hides + 1 ELSE hides
    /\ UNCHANGED <<pc, arg, todo, queue, auto_hide_delay, gvars, cvars, mvars, pvars, dvars, hvars,
                   current_data, timerLeft, best_move_container, opp_move_container,
                   autoHides, sinceRender, prior>>

\* The pos_animation finishes: the window is at its end value. A frame of
\* the animation sets the position, whatever a drag did in between.
SlideFinished ==
    /\ pc[UI] = "idle"
    /\ slide # <<>>
    /\ pos' = slide[1]
    /\ slide' = <<>>
    /\ UNCHANGED <<pc, arg, todo, queue, auto_hide_delay, dvars, gvars, cvars, mvars, wvars, tvars,
                   hvars>>

\* window.get_overlay called by thread t: the first call constructs the
\* DraggableOverlay, which takes the global configuration object
\* (self.config = get_config()) and moves to its position (_load_position).
get_overlay(t) ==
    IF overlayThread = None
    THEN /\ overlayThread' = t
         /\ overlayConfig' = CONFIG
         /\ pos' = <<configs[CONFIG].position_x, configs[CONFIG].position_y>>
         /\ placed' = [any |-> TRUE, pos |-> pos', file |-> file]
         /\ UNCHANGED <<slide, dragging, pressed, lastRelease, lastSave>>
    ELSE UNCHANGED <<overlayThread, mvars, pvars>>

\* test_overlay_simple.py:21, overlay = get_overlay() on the UI thread.
GetOverlay ==
    /\ pc[UI] = "idle"
    /\ overlayThread = None
    /\ get_overlay(UI)
    /\ UNCHANGED <<pc, arg, todo, queue, auto_hide_delay, gvars, cvars, wvars, tvars, hvars,
                   instance, lock, connected, overlayRef, nconn>>

\* self.config.lock_position, read when an event is handled.
lock_position == configs[overlayConfig].lock_position

MousePressStopsTimer(button) ==
    /\ pc[UI] = "idle"
    /\ visible
    /\ pressed = None
    /\ pressed' = button
    /\ dragging' = IF button = "left" /\ ~lock_position THEN TRUE ELSE dragging
    /\ timerLeft' = -1
    /\ UNCHANGED <<pc, arg, todo, queue, auto_hide_delay, dvars, gvars, cvars, pvars, tvars,
                   hvars, overlayConfig, lastRelease, lastSave, placed, visible, current_data,
                   anim, best_move_container, opp_move_container>>

\* mousePressEvent: a button goes down on the visible overlay.
MousePress(button) ==
    /\ pc[UI] = "idle"
    /\ visible
    /\ pressed = None
    /\ pressed' = button
    /\ dragging' = IF button = "left" /\ ~lock_position THEN TRUE ELSE dragging
    /\ UNCHANGED <<pc, arg, todo, queue, auto_hide_delay, dvars, gvars, cvars, pvars, wvars, tvars,
                   hvars, overlayConfig, lastRelease, lastSave, placed>>

MouseMoveIgnoresLock(target) ==
    /\ pc[UI] = "idle"
    /\ pressed # None
    /\ pos' = IF dragging THEN target ELSE pos
    /\ UNCHANGED <<pc, arg, todo, queue, auto_hide_delay, dvars, gvars, cvars, mvars, wvars, tvars,
                   hvars, slide>>

\* mouseMoveEvent while a button is down: the pointer is where the window
\* would be at `target`.
MouseMove(target) ==
    /\ pc[UI] = "idle"
    /\ pressed # None
    /\ pos' = IF dragging /\ ~lock_position THEN target ELSE pos
    /\ UNCHANGED <<pc, arg, todo, queue, auto_hide_delay, dvars, gvars, cvars, mvars, wvars, tvars,
                   hvars, slide>>

\* mouseReleaseEvent: for the left button, dragging ends and
\* _save_position stores the window position in self.config, then
\* save_config() writes the global CONFIG to the file.
MouseRelease ==
    /\ pc[UI] = "idle"
    /\ pressed # None
    /\ pressed' = None
    /\ IF pressed = "left"
       THEN /\ dragging' = FALSE
            /\ configs' = [configs EXCEPT ![overlayConfig].position_x = pos[1],
                                          ![overlayConfig].position_y = pos[2]]
            /\ file' = save(configs'[CONFIG])
            /\ lastRelease' = [any |-> TRUE, pos |-> pos,
                               saved |-> <<file'.data.position_x, file'.data.position_y>>,
                               editorOpen |-> editor.config # 0]
            /\ lastSave' = lastRelease'
       ELSE UNCHANGED <<dragging, configs, file, lastRelease, lastSave>>
    /\ UNCHANGED <<pc, arg, todo, queue, auto_hide_delay, dvars, gvars, pvars, wvars, tvars, hvars,
                   CONFIG, allowed_countries, blocked_countries, loaded, reloads, countryCheck,
                   show_best_move, show_opponent_best, editor, overlayConfig, placed>>

\* window.py:329-333, the position that centres the overlay on the screen.
ScreenCentre ==
    <<(ScreenSize[1] - OverlaySize[1]) \div 2, (ScreenSize[2] - OverlaySize[2]) \div 2>>

\* DraggableOverlay.reset_position: move to the centre of the screen, then
\* _save_position. A running pos_animation is not stopped.
reset_position ==
    /\ pc[UI] = "idle"
    /\ overlayThread # None
    /\ pos' = ScreenCentre
    /\ configs' = [configs EXCEPT ![overlayConfig].position_x = ScreenCentre[1],
                                  ![overlayConfig].position_y = ScreenCentre[2]]
    /\ file' = save(configs'[CONFIG])
    /\ lastSave' = [any |-> TRUE, pos |-> ScreenCentre,
                    saved |-> <<file'.data.position_x, file'.data.position_y>>,
                    editorOpen |-> editor.config # 0]
    /\ UNCHANGED <<pc, arg, todo, queue, auto_hide_delay, dvars, gvars, wvars, tvars, hvars,
                   CONFIG, allowed_countries, blocked_countries, loaded, reloads, countryCheck,
                   show_best_move, show_opponent_best, editor, overlayConfig, dragging, pressed,
                   lastRelease, placed, slide>>

\* ------------------------------------------------------- the config editor

\* ConfigEditor.__init__ (config_gui.py:22-26): self.config = get_config(),
\* then load_settings puts the fields into the widgets.
OpenEditor ==
    /\ pc[UI] = "idle"
    /\ editor.config = 0
    /\ editor' = [editor EXCEPT
                     !.config = CONFIG,
                     !.position = <<SpinValue(configs[CONFIG].position_x),
                                    SpinValue(configs[CONFIG].position_y)>>,
                     !.lock_position = configs[CONFIG].lock_position]
    /\ UNCHANGED <<pc, arg, todo, queue, auto_hide_delay, dvars, gvars, mvars, pvars, wvars, tvars,
                   hvars, file, configs, CONFIG, allowed_countries, blocked_countries, loaded,
                   reloads, countryCheck, show_best_move, show_opponent_best>>

\* The user ticks or clears lock_position_check.
ToggleLock ==
    /\ pc[UI] = "idle"
    /\ editor.config # 0
    /\ editor' = [editor EXCEPT !.lock_position = ~@]
    /\ UNCHANGED <<pc, arg, todo, queue, auto_hide_delay, dvars, gvars, mvars, pvars, wvars, tvars,
                   hvars, file, configs, CONFIG, allowed_countries, blocked_countries, loaded,
                   reloads, countryCheck, show_best_move, show_opponent_best>>

\* ConfigEditor.save_settings: every widget's value goes into self.config
\* (of the fields the model follows: position_x, position_y, lock_position;
\* icon_size gets back the value load_settings read), then validate and, when
\* valid, save_config().
save_settings ==
    /\ pc[UI] = "idle"
    /\ editor.config # 0
    /\ configs' = [configs EXCEPT ![editor.config].position_x = editor.position[1],
                                  ![editor.config].position_y = editor.position[2],
                                  ![editor.config].lock_position = editor.lock_position]
    /\ file' = IF validate(configs'[editor.config]) THEN save(configs'[CONFIG]) ELSE file
    /\ editor' = [editor EXCEPT
                     !.saved = [any |-> TRUE,
                                drag |-> lastSave.any /\ lastSave.editorOpen,
                                file |-> <<file'.data.position_x, file'.data.position_y>>,
                                stored |-> lastSave.pos]]
    /\ UNCHANGED <<pc, arg, todo, queue, auto_hide_delay, dvars, gvars, mvars, pvars, wvars, tvars,
                   hvars, CONFIG, allowed_countries, blocked_countries, loaded, reloads,
                   countryCheck, show_best_move, show_opponent_best>>

\* config.reload_config: CONFIG is bound to the object a new load returns.
reload_config ==
    /\ pc[UI] = "idle"
    /\ reloads < MaxReload
    /\ reloads' = reloads + 1
    /\ loaded' = Loaded(file)
    /\ file' = load(file).file
    /\ configs' = Append(configs, load(file).config)
    /\ CONFIG' = Len(configs) + 1
    /\ UNCHANGED <<pc, arg, todo, queue, auto_hide_delay, dvars, gvars, mvars, pvars, wvars, tvars,
                   hvars, allowed_countries, blocked_countries, countryCheck, show_best_move,
                   show_opponent_best, editor>>

\* A caller asks CONFIG.is_country_allowed(country_code).
IsCountryAllowed(country_code) ==
    /\ countryCheck' =
          [code |-> country_code,
           allowed |-> is_country_allowed(country_code, allowed_countries, blocked_countries)]
    /\ UNCHANGED <<pc, arg, todo, queue, auto_hide_delay, dvars, gvars, mvars, pvars, wvars, tvars,
                   hvars, file, configs, CONFIG, allowed_countries, blocked_countries, loaded,
                   reloads, show_best_move, show_opponent_best, editor>>

\* --------------------------------------------------------- the dispatcher

\* A caller builds MoveDisplayData(label, ...) and, when that succeeds,
\* calls dispatch_data(data); at most `max` updates are sent in all.
Construct(t, l, max) ==
    /\ pc[t] = "idle"
    /\ TotalSent < max
    /\ lastConstruct' = <<l, PostInit(l)>>
    /\ IF PostInit(l)
       THEN /\ sent' = [sent EXCEPT ![t] = @ + 1]
            /\ arg' = [arg EXCEPT ![t] = MoveDisplayData(t, sent[t] + 1, l)]
            /\ pc' = [pc EXCEPT ![t] = "get"]
            /\ afterRebind' = IF bindsDone >= 2
                              THEN afterRebind \cup {MoveDisplayData(t, sent[t] + 1, l)}
                              ELSE afterRebind
       ELSE UNCHANGED <<sent, arg, pc, afterRebind>>
    /\ UNCHANGED <<todo, queue, auto_hide_delay, gvars, cvars, mvars, pvars, dvars, wvars, tvars,
                   created, rendered, accepted, unbound, binds, bindsDone, boundBy>>

\* The k-th update a thread sends carries the k-th label of TestMoves.
NextLabel(t) == TestMoves[(sent[t] % Len(TestMoves)) + 1]

DispatcherLockIgnored == TRUE

\* _get_dispatcher, line 69: `with _dispatcher_lock` is entered when no
\* thread holds the lock.
DispatcherLockFree == dispatcher_lock = None

\* _get_dispatcher, lines 69-70: take _dispatcher_lock and test
\* `_dispatcher_instance is None`; the caller goes on at `new` when it is,
\* at `old` when it is not.
get_dispatcher_enter(t, new, old) ==
    /\ DispatcherLockFree
    /\ dispatcher_lock' = t
    /\ pc' = [pc EXCEPT ![t] = IF instance = 0 THEN new ELSE old]
    /\ UNCHANGED <<arg, todo, queue, auto_hide_delay, dvars, got, cvars, mvars, pvars, wvars, tvars,
                   hvars>>

\* _get_dispatcher, lines 71-74: construct the OverlayDispatcher when the
\* test found None, return _dispatcher_instance and leave the with block.
\* The caller goes on at `next`.
get_dispatcher_return(t, create, next) ==
    /\ instance' = IF create THEN created + 1 ELSE instance
    /\ created' = IF create THEN created + 1 ELSE created
    /\ got' = [got EXCEPT ![t] = instance']
    /\ dispatcher_lock' = None
    /\ pc' = [pc EXCEPT ![t] = next]
    /\ UNCHANGED <<arg, todo, queue, auto_hide_delay, cvars, mvars, pvars, wvars, tvars,
                   lock, connected, overlayRef, nconn, overlayThread,
                   sent, rendered, accepted, unbound, lastConstruct, binds, bindsDone, boundBy,
                   afterRebind>>

\* dispatch_data, line 83: dispatcher = _get_dispatcher()
GetDispatcher(t) ==
    /\ pc[t] = "get"
    /\ get_dispatcher_enter(t, "gnew", "gold")

GetDispatcherReturn(t) ==
    \/ /\ pc[t] = "gnew"
       /\ get_dispatcher_return(t, TRUE, "lock")
    \/ /\ pc[t] = "gold"
       /\ get_dispatcher_return(t, FALSE, "lock")

LockWithoutWaiting(t) ==
    /\ pc[t] = "lock"
    /\ lock' = t
    /\ pc' = [pc EXCEPT ![t] = "check"]
    /\ UNCHANGED <<arg, todo, queue, auto_hide_delay, gvars, cvars, mvars, pvars, wvars, tvars, hvars,
                   instance, connected, overlayRef, nconn, overlayThread>>

\* dispatch, line 44: with self._lock
Lock(t) ==
    /\ pc[t] = "lock"
    /\ lock = None
    /\ lock' = t
    /\ pc' = [pc EXCEPT ![t] = "check"]
    /\ UNCHANGED <<arg, todo, queue, auto_hide_delay, gvars, cvars, mvars, pvars, wvars, tvars, hvars,
                   instance, connected, overlayRef, nconn, overlayThread>>

LockKeptOnReturn(t) == t

\* dispatch, lines 51-53: `return` inside `with self._lock` leaves the with
\* block, which releases the lock.
LockAfterReturn(t) == None

IsBoundOnceConnected == nconn > 0

\* dispatch, line 51: the test `self._connected`
IsBound == connected

\* dispatch, lines 46-53: when not connected the update is dropped and the
\* call returns, leaving the with block.
Check(t) ==
    /\ pc[t] = "check"
    /\ IF connected THEN /\ accepted' = Append(accepted, arg[t])
                         /\ UNCHANGED unbound
                    ELSE /\ unbound' = unbound \cup {arg[t]}
                         /\ UNCHANGED accepted
    /\ IF IsBound
       THEN /\ pc' = [pc EXCEPT ![t] = "emit"]
            /\ UNCHANGED <<lock, arg>>
       ELSE /\ pc' = [pc EXCEPT ![t] = "idle"]
            /\ arg' = [arg EXCEPT ![t] = NoData]
            /\ lock' = LockAfterReturn(t)
    /\ UNCHANGED <<todo, queue, auto_hide_delay, gvars, cvars, mvars, pvars, wvars, tvars,
                   instance, connected, overlayRef, nconn, overlayThread,
                   sent, created, rendered, lastConstruct, binds, bindsDone, boundBy, afterRebind>>

DeliverInlineAlways(t) == TRUE

\* Qt AutoConnection: the slot runs inline when the emitting thread is the
\* thread the receiver lives in.
DeliverInline(t) == overlayThread = t

PostFront(q, data, n) == Copies(data, n) \o q

PostLatestWins(q, data, n) == Copies(data, n)

\* A queued connection posts one slot call per connection at the tail of the
\* receiver thread's event queue.
Post(q, data, n) == q \o Copies(data, n)

\* dispatch, line 56: self.move_received.emit(data)
Emit(t) ==
    /\ pc[t] = "emit"
    /\ IF nconn = 0
       THEN /\ pc' = [pc EXCEPT ![t] = "release"]
            /\ UNCHANGED <<todo, queue>>
       ELSE IF DeliverInline(t)
       THEN /\ pc' = [pc EXCEPT ![t] = "render"]
            /\ todo' = [todo EXCEPT ![t] = nconn]
            /\ UNCHANGED queue
       ELSE /\ pc' = [pc EXCEPT ![t] = "release"]
            /\ queue' = [queue EXCEPT ![overlayThread] = Post(@, arg[t], nconn)]
            /\ UNCHANGED todo
    /\ UNCHANGED <<arg, auto_hide_delay, gvars, cvars, mvars, pvars, dvars, wvars, tvars, hvars>>

\* The slot display_move called inline from emit, in the emitting thread,
\* inside the with block.
Render(t) ==
    /\ pc[t] = "render"
    /\ display_move(arg[t], t)
    /\ todo' = [todo EXCEPT ![t] = @ - 1]
    /\ pc' = [pc EXCEPT ![t] = IF todo[t] = 1 THEN "release" ELSE "render"]
    /\ UNCHANGED <<arg, queue, auto_hide_delay, gvars, cvars, mvars, dvars,
                   sent, created, accepted, unbound, lastConstruct, binds, bindsDone, boundBy, afterRebind>>

\* dispatch, line 58 and the end of the with block: print, release, return.
Release(t) ==
    /\ pc[t] = "release"
    /\ lock' = None
    /\ pc' = [pc EXCEPT ![t] = "idle"]
    /\ arg' = [arg EXCEPT ![t] = NoData]
    /\ UNCHANGED <<todo, queue, auto_hide_delay, gvars, cvars, mvars, pvars, wvars, tvars, hvars,
                   instance, connected, overlayRef, nconn, overlayThread>>

\* The UI thread's event loop takes the first posted slot call.
TakeEvent ==
    /\ pc[UI] = "idle"
    /\ queue[UI] # <<>>
    /\ arg' = [arg EXCEPT ![UI] = Head(queue[UI])]
    /\ queue' = [queue EXCEPT ![UI] = Tail(@)]
    /\ pc' = [pc EXCEPT ![UI] = "slot"]
    /\ UNCHANGED <<todo, auto_hide_delay, gvars, cvars, mvars, pvars, dvars, wvars, tvars, hvars>>

\* ... and runs display_move for it.
RunSlot ==
    /\ pc[UI] = "slot"
    /\ display_move(arg[UI], UI)
    /\ pc' = [pc EXCEPT ![UI] = "idle"]
    /\ arg' = [arg EXCEPT ![UI] = NoData]
    /\ UNCHANGED <<todo, queue, auto_hide_delay, gvars, cvars, mvars, dvars,
                   sent, created, accepted, unbound, lastConstruct, binds, bindsDone, boundBy, afterRebind>>

\* ----------------------------------------------------------------- binding

\* init_dispatcher() is called.
InitDispatcher(t) ==
    /\ pc[t] = "idle"
    /\ binds < MaxBind
    /\ binds' = binds + 1
    /\ pc' = [pc EXCEPT ![t] = "bget"]
    /\ UNCHANGED <<arg, todo, queue, auto_hide_delay, gvars, cvars, mvars, pvars, dvars, wvars, tvars,
                   sent, created, rendered, accepted, unbound, lastConstruct, bindsDone, boundBy, afterRebind>>

\* init_dispatcher, line 92: dispatcher = _get_dispatcher()
BindGet(t) ==
    /\ pc[t] = "bget"
    /\ get_dispatcher_enter(t, "bgnew", "bgold")

BindGetReturn(t) ==
    \/ /\ pc[t] = "bgnew"
       /\ get_dispatcher_return(t, TRUE, "bcheck")
    \/ /\ pc[t] = "bgold"
       /\ get_dispatcher_return(t, FALSE, "bcheck")

BindNeededAlways == TRUE

\* connect_overlay, lines 28-29: return when already connected.
BindNeeded == ~connected

BindCheck(t) ==
    /\ pc[t] = "bcheck"
    /\ pc' = [pc EXCEPT ![t] = IF BindNeeded THEN "boverlay" ELSE "idle"]
    /\ bindsDone' = IF BindNeeded THEN bindsDone ELSE bindsDone + 1
    /\ UNCHANGED <<arg, todo, queue, auto_hide_delay, gvars, cvars, mvars, pvars, dvars, wvars, tvars,
                   sent, created, rendered, accepted, unbound, lastConstruct, binds, boundBy, afterRebind>>

BindOverlayFlagsFirst(t) ==
    /\ pc[t] = "boverlay"
    /\ get_overlay(t)
    /\ overlayRef' = TRUE
    /\ connected' = TRUE
    /\ pc' = [pc EXCEPT ![t] = "bconnect"]
    /\ UNCHANGED <<arg, todo, queue, auto_hide_delay, gvars, cvars, wvars, tvars, hvars,
                   instance, lock, nconn>>

\* connect_overlay, line 33: self._overlay = get_overlay(); the first call
\* builds the widget, which then lives in the calling thread.
BindOverlay(t) ==
    /\ pc[t] = "boverlay"
    /\ get_overlay(t)
    /\ overlayRef' = TRUE
    /\ pc' = [pc EXCEPT ![t] = "bconnect"]
    /\ UNCHANGED <<arg, todo, queue, auto_hide_delay, gvars, cvars, wvars, tvars, hvars,
                   instance, lock, connected, nconn>>

\* connect_overlay, line 34: move_received.connect(self._overlay.display_move)
BindConnect(t) ==
    /\ pc[t] = "bconnect"
    /\ nconn' = nconn + 1
    /\ pc' = [pc EXCEPT ![t] = "bflag"]
    /\ UNCHANGED <<arg, todo, queue, auto_hide_delay, gvars, cvars, mvars, pvars, wvars, tvars, hvars,
                   instance, lock, connected, overlayRef, overlayThread>>

\* connect_overlay, lines 35-37: self._connected = True, print, return.
BindFlag(t) ==
    /\ pc[t] = "bflag"
    /\ connected' = TRUE
    /\ boundBy' = IF connected THEN boundBy ELSE t
    /\ bindsDone' = bindsDone + 1
    /\ pc' = [pc EXCEPT ![t] = "idle"]
    /\ UNCHANGED <<arg, todo, queue, auto_hide_delay, gvars, cvars, mvars, pvars, wvars, tvars,
                   instance, lock, overlayRef, nconn, overlayThread,
                   sent, created, rendered, accepted, unbound, lastConstruct, binds, afterRebind>>

\* --------------------------------------------------------- specifications

DispatchStep(t) ==
    \/ GetDispatcher(t)
    \/ GetDispatcherReturn(t)
    \/ Lock(t)
    \/ Check(t)
    \/ Emit(t)
    \/ Render(t)
    \/ Release(t)

BindStep(t) ==
    \/ InitDispatcher(t)
    \/ BindGet(t)
    \/ BindGetReturn(t)
    \/ BindCheck(t)
    \/ BindOverlay(t)
    \/ BindConnect(t)
    \/ BindFlag(t)

\* test_overlay_simple.py:38-41, a callback on the UI thread: build the
\* k-th update of test_moves and hand it to the overlay that get_overlay()
\* returned at line 21.
ShowMove ==
    LET l == test_moves[(sent[UI] % Len(test_moves)) + 1] IN
    /\ pc[UI] = "idle"
    /\ overlayThread # None
    /\ TotalSent < MaxDispatch
    /\ lastConstruct' = <<l, PostInit(l)>>
    /\ IF PostInit(l)
       THEN /\ sent' = [sent EXCEPT ![UI] = @ + 1]
            /\ display_move(MoveDisplayData(UI, sent[UI] + 1, l), UI)
       ELSE UNCHANGED <<sent, pvars, wvars, tvars, rendered>>
    /\ UNCHANGED <<pc, arg, todo, queue, auto_hide_delay, gvars, cvars, mvars,
                   instance, lock, connected, overlayRef, nconn, overlayThread,
                   created, accepted, unbound, binds, bindsDone, boundBy, afterRebind>>

\* A caller on the UI thread builds MoveDisplayData(label, b, o) and calls
\* overlay.display_move (config_gui.py:522-530, test_overlay_simple.py:38-41),
\* with any texts for the two moves.
DisplayMove(b, o) ==
    LET l == test_moves[(sent[UI] % Len(test_moves)) + 1] IN
    /\ pc[UI] = "idle"
    /\ overlayThread # None
    /\ TotalSent < MaxDispatch
    /\ lastConstruct' = <<l, PostInit(l)>>
    /\ IF PostInit(l)
       THEN /\ sent' = [sent EXCEPT ![UI] = @ + 1]
            /\ display_move(MoveData(UI, sent[UI] + 1, l, b, o), UI)
       ELSE UNCHANGED <<sent, pvars, wvars, tvars, rendered>>
    /\ UNCHANGED <<pc, arg, todo, queue, auto_hide_delay, gvars, cvars, mvars,
                   instance, lock, connected, overlayRef, nconn, overlayThread,
                   created, accepted, unbound, binds, bindsDone, boundBy, afterRebind>>

\* The program as dispatcher.py runs it: init_dispatcher on the UI (main)
\* thread, dispatch_data from any thread, the UI thread's event loop.
Next ==
    \/ \E t \in Threads : Construct(t, NextLabel(t), MaxDispatch)
    \/ \E t \in Threads : DispatchStep(t)
    \/ BindStep(UI)
    \/ TakeEvent
    \/ RunSlot

Spec == Init /\ [][Next]_vars

\* The program with one producer thread and the UI thread dispatching,
\* under a fair scheduler: a thread that can take a step of a call it is in
\* eventually takes it, a thread that waits for a lock eventually gets it
\* when the lock keeps being released, and the UI thread's event loop
\* (app.exec) keeps taking posted events.
FairThreads == {UI, "p1"}

NextFair ==
    \/ \E t \in FairThreads : Construct(t, NextLabel(t), MaxFair)
    \/ \E t \in FairThreads : DispatchStep(t)
    \/ BindStep(UI)
    \/ TakeEvent
    \/ RunSlot

Fairness ==
    /\ \A t \in FairThreads :
          /\ SF_vars(GetDispatcher(t))
          /\ SF_vars(Lock(t))
          /\ WF_vars(GetDispatcherReturn(t) \/ Check(t) \/ Emit(t) \/ Render(t) \/ Release(t))
    /\ SF_vars(BindGet(UI))
    /\ WF_vars(BindGetReturn(UI) \/ BindCheck(UI) \/ BindOverlay(UI) \/ BindConnect(UI)
                  \/ BindFlag(UI))
    /\ WF_vars(TakeEvent)
    /\ WF_vars(RunSlot)

SpecFair == Init /\ [][NextFair]_vars /\ Fairness

\* The same program with init_dispatcher called from any thread.
NextAnyThread ==
    \/ \E t \in Threads : Construct(t, NextLabel(t), MaxDispatch)
    \/ \E t \in Threads : DispatchStep(t)
    \/ \E t \in Threads : BindStep(t)
    \/ TakeEvent
    \/ RunSlot

SpecAnyThread == Init /\ [][NextAnyThread]_vars

\* One producer thread sending updates built from any label a caller may
\* try, the UI thread binding and running its event loop.
NextLabels ==
    \/ \E l \in LabelInputs : Construct("p1", l, MaxLabelled)
    \/ GetDispatcher("p1")
    \/ GetDispatcherReturn("p1")
    \/ Lock("p1")
    \/ Check("p1")
    \/ Emit("p1")
    \/ Release("p1")
    \/ BindStep(UI)
    \/ TakeEvent
    \/ RunSlot

SpecLabels == Init /\ [][NextLabels]_vars

\* The overlay on its own, as test_overlay_simple.py drives it from the UI
\* thread, with time passing: the hide timer and the animations.
NextWindow ==
    \/ GetOverlay
    \/ ShowMove
    \/ SlideFinished
    \/ Tick
    \/ Timeout
    \/ AnimFinished

SpecWindow == Init /\ [][NextWindow]_vars

\* The overlay and the configuration: the overlay is made and shown on the
\* UI thread, the user drags it, the configuration is reloaded.
NextConfig ==
    \/ GetOverlay
    \/ ShowMove
    \/ SlideFinished
    \/ \E button \in {"left", "right"} : MousePress(button)
    \/ \E target \in DragTargets : MouseMove(target)
    \/ MouseRelease
    \/ reload_config

SpecConfig == InitConfig /\ [][NextConfig]_vars

\* A first run in which the overlay's position is stored by drag releases
\* and by reset_position, and the configuration is reloaded.
NextPosition ==
    \/ GetOverlay
    \/ ShowMove
    \/ SlideFinished
    \/ \E button \in {"left", "right"} : MousePress(button)
    \/ \E target \in DragTargets : MouseMove(target)
    \/ MouseRelease
    \/ reset_position
    \/ reload_config

SpecPosition == Init /\ [][NextPosition]_vars

\* The overlay and the config editor in one process (config_gui.py:516-532
\* shows the overlay from the editor): the overlay is shown and dragged, the
\* editor is opened, lock_position is ticked or cleared, the settings saved.
NextEditor ==
    \/ GetOverlay
    \/ ShowMove
    \/ SlideFinished
    \/ \E button \in {"left", "right"} : MousePress(button)
    \/ \E target \in DragTargets : MouseMove(target)
    \/ MouseRelease
    \/ OpenEditor
    \/ ToggleLock
    \/ save_settings

SpecEditor == Init /\ [][NextEditor]_vars

\* The overlay shown updates with and without the two moves, each section
\* enabled or not in the configuration.
NextSections ==
    \/ GetOverlay
    \/ \E b, o \in MoveTexts : DisplayMove(b, o)
    \/ SlideFinished

SpecSections == InitSections /\ [][NextSections]_vars

\* OverlayConfig.load applied to any file, at import and on reload_config.
NextLoad ==
    reload_config

SpecLoad == InitConfig /\ [][NextLoad]_vars

\* The country filter asked for any code, with any lists configured.
NextCountry ==
    \E c \in Countries : IsCountryAllowed(c)

SpecCountry == InitCountry /\ [][NextCountry]_vars

\* ------------------------------------------------------------------ claims

Count(q, u) == Cardinality({i \in 1..Len(q) : q[i] = u})
Updates(q) == {q[i] : i \in 1..Len(q)}
RenderedUpdates == {rendered[i].u : i \in 1..Len(rendered)}
TimesRendered(u) == Cardinality({i \in 1..Len(rendered) : rendered[i].u = u})
Quiescent == /\ \A t \in Threads : pc[t] = "idle"
             /\ \A t \in Threads : queue[t] = <<>>

\* The slot calls an update still has coming: one per emit not yet made, the
\* inline calls left in a running emit, the posted calls, the call a taken
\* event is about to make.
Outstanding(u) ==
    Cardinality({t \in Threads : arg[t] = u /\ pc[t] \in {"get", "gnew", "gold", "lock", "check", "emit", "slot"}})
    + SumOver([t \in Threads |-> IF arg[t] = u /\ pc[t] = "render" THEN todo[t] ELSE 0], Threads)
    + SumOver([t \in Threads |-> Count(queue[t], u)], Threads)

\* C1: the updates one thread dispatched are rendered in the order of its
\* dispatch calls (its k-th update never after its (k+1)-th), and only
\* updates whose dispatch found the dispatcher bound are rendered, whatever
\* the UI thread's event processing interleaves.
C1_RenderOrderPerThread ==
    /\ \A i, j \in 1..Len(rendered) :
          (i < j /\ rendered[i].u.src = rendered[j].u.src)
              => rendered[i].u.seq < rendered[j].u.seq
    /\ RenderedUpdates \subseteq Updates(accepted)

C1_Witness ==
    \E i, j \in 1..Len(rendered) :
        /\ i < j
        /\ rendered[i].u.src = "p1"
        /\ rendered[j].u.src = "p1"
        /\ rendered[i].by = UI

\* C2: an update whose dispatch found _connected false is dropped for good:
\* it is never rendered, never posted and no thread keeps handling it, also
\* after a later bind; the call returns normally (the thread is back at idle
\* or in a later call).
C2_UnboundDropped ==
    \A u \in unbound :
        /\ u \notin RenderedUpdates
        /\ \A t \in Threads : u \notin Updates(queue[t])
        /\ \A t \in Threads : arg[t] # u

C2_Witness ==
    /\ connected
    /\ Quiescent
    /\ \E u \in unbound : \E i \in 1..Len(rendered) :
          rendered[i].u.src = u.src /\ rendered[i].u.seq > u.seq

\* C3: binding more than once leaves one delivery path: the signal has at
\* most one connection, and an update dispatched after two bind calls have
\* returned gets exactly one display_move call (made or still to come).
C3_BindOnce ==
    /\ nconn <= 1
    /\ (bindsDone >= 1 => nconn = 1)
    /\ \A u \in afterRebind : TimesRendered(u) + Outstanding(u) = 1

C3_Witness ==
    /\ bindsDone >= 2
    /\ Quiescent
    /\ \E u \in afterRebind : TimesRendered(u) = 1

\* C4: no update is coalesced or dropped after binding: once every dispatch
\* has returned and the UI thread has drained its queue, display_move has
\* run once for each dispatch that found the dispatcher bound.
C4_NoCoalescing ==
    Quiescent =>
        /\ Len(rendered) = Len(accepted)
        /\ \A u \in Updates(accepted) : TimesRendered(u) = 1

C4_Witness ==
    /\ Quiescent
    /\ Len(accepted) >= 3
    /\ \E i, j \in 1..Len(accepted) : accepted[i].src = "p1" /\ accepted[j].src = "p2"

\* C5: display_move only runs on the UI thread: a producer thread never
\* runs the slot inline, its updates reach display_move through the UI
\* thread's event queue.
C5_RenderOnUiThread ==
    /\ \A i \in 1..Len(rendered) : rendered[i].by = UI
    /\ \A t \in Producers : pc[t] # "render"

C5_Witness ==
    \E i, j \in 1..Len(rendered) :
        /\ rendered[i].u.src \in Producers
        /\ rendered[i].by = UI
        /\ rendered[j].u.src = UI

\* C6: a producer thread inside dispatch can go on while the UI thread is in
\* the middle of rendering an update: when the UI thread is inside
\* display_move, a producer that wants the dispatcher lock does not find it
\* held by the UI thread.
C6_ProducerNeverWaitsForUi ==
    \A p \in Producers :
        (pc[p] = "lock" /\ pc[UI] \in {"render", "slot"}) => lock # UI

\* C7: a bind made from a thread other than the UI thread leaves the
\* dispatcher unbound: _connected is only ever set by the UI thread.
C7_OffThreadBindRejected ==
    boundBy \in {None, UI}

\* C8: building an update with a label outside the closed set fails, so no
\* update with such a label is ever dispatched, posted or rendered.
C8_InvalidLabelRejected ==
    /\ (lastConstruct[1] \notin ClosedLabels => ~lastConstruct[2])
    /\ \A t \in Threads : arg[t].label \in ClosedLabels \cup {None}
    /\ \A t \in Threads : \A u \in Updates(queue[t]) : u.label \in ClosedLabels
    /\ \A u \in RenderedUpdates : u.label \in ClosedLabels

C8_Witness ==
    /\ lastConstruct[1] \in LabelInputs \ ClosedLabels
    /\ ~lastConstruct[2]
    /\ Len(rendered) >= 1

\* C9: building an update succeeds for every label of the closed set.
C9_ClosedLabelsAccepted ==
    lastConstruct[1] \in ClosedLabels => lastConstruct[2]

\* C10: with a delay D > 0, after a display_move followed by no other
\* update, _auto_hide runs at most once, and not before D ticks have passed
\* since that display_move.
C10_HideOnce ==
    /\ autoHides <= 1
    /\ (autoHides >= 1 => sinceRender >= auto_hide_delay)

Last(q) == q[Len(q)]

\* C11: with a delay D > 0, an update that arrives less than D ticks after
\* the one before finds that _auto_hide has not run in between, and re-arms
\* the hide timer: _auto_hide then does not run before D ticks have
\* passed since the later update, and until then the timer is due exactly
\* D ticks after it. The updates are rendered in the order they were
\* shown.
C11_UpdateRestartsDelay ==
    /\ (Len(rendered) >= 2 /\ auto_hide_delay > 0 /\ prior.gap < auto_hide_delay)
          => prior.hid = 0
    /\ (autoHides >= 1 => sinceRender >= auto_hide_delay)
    /\ (rendered # <<>> /\ auto_hide_delay > 0 /\ autoHides = 0 /\ sinceRender <= auto_hide_delay)
          => timerLeft = auto_hide_delay - sinceRender
    /\ \A i, j \in 1..Len(rendered) : i < j => rendered[i].u.seq < rendered[j].u.seq

C11_Witness ==
    /\ auto_hide_delay > 0
    /\ Len(rendered) = 2
    /\ prior.gap > 0
    /\ prior.gap < auto_hide_delay
    /\ autoHides = 1
    /\ sinceRender = auto_hide_delay

\* C12: with a delay of 0 nothing hides the overlay: the hide timer is never
\* active, _auto_hide never runs, no fade-out starts, and once an update
\* has been rendered the overlay stays visible, however much time passes.
C12_NoAutoHideWhenDisabled ==
    auto_hide_delay = 0 =>
        /\ timerLeft = -1
        /\ autoHides = 0
        /\ hides = 0
        /\ anim # "hide"
        /\ (rendered # <<>> => visible)

C12_Witness ==
    /\ auto_hide_delay = 0
    /\ Len(rendered) >= 2
    /\ sinceRender > DelayTicks
    /\ anim = "none"
    /\ visible

\* C20: whatever state a display_move call finds (hidden, visible, hide
\* timer active or not), it leaves the overlay visible, current_data equal
\* to the update it was given, and the one hide timer freshly started with
\* the full delay when the delay is > 0 and inactive when the delay is 0.
C20_RenderPostState ==
    [][Len(rendered') > Len(rendered) =>
          /\ visible'
          /\ current_data' = Last(rendered').u
          /\ IF auto_hide_delay > 0 THEN timerLeft' = auto_hide_delay ELSE timerLeft' = -1]_vars

C20_Witness ==
    /\ Len(rendered) = 3
    /\ sinceRender = 0
    /\ prior.visible
    /\ prior.armed
    /\ prior.gap > 0
    /\ visible
    /\ current_data = rendered[3].u
    /\ timerLeft = auto_hide_delay

\* C17: the dispatcher lock is never held while display_move runs: when a
\* thread is in display_move (called inline from emit, or from a posted
\* event), no thread holds OverlayDispatcher._lock.
C17_LockFreeWhileRendering ==
    (\E t \in Threads : pc[t] \in {"render", "slot"}) => lock = None

\* C18: binding is serialised with itself and with dispatch by the
\* dispatcher lock, so of two overlapping connect_overlay calls at most one
\* finds the dispatcher unbound and connects: the signal never has two
\* connections to display_move.
C18_SingleConnection ==
    nconn <= 1

FromProducer(u) == u.src \in Producers
ProducerRendered == SelectSeq([i \in 1..Len(rendered) |-> rendered[i].u], FromProducer)
ProducerAccepted == SelectSeq(accepted, FromProducer)

\* C19: the updates of the producer threads are rendered in one order, the
\* order in which their dispatch calls held the dispatcher lock: what has
\* been rendered of them so far is a prefix of the sequence in which they
\* passed the bound check under the lock.
C19_RenderOrderIsLockOrder ==
    /\ Len(ProducerRendered) <= Len(ProducerAccepted)
    /\ \A i \in 1..Len(ProducerRendered) : ProducerRendered[i] = ProducerAccepted[i]

C19_Witness ==
    /\ Len(ProducerRendered) = 3
    /\ ProducerRendered[1].src = "p2"
    /\ ProducerRendered[2].src = "p1"
    /\ ProducerRendered[3].src = "p2"

\* C14: whatever way first calls of dispatch_data and init_dispatcher from
\* several threads interleave, one OverlayDispatcher is constructed at most,
\* it stays the global instance, and every _get_dispatcher call returns it.
C14_OneDispatcher ==
    /\ created <= 1
    /\ instance = created
    /\ \A t \in Threads : got[t] # 0 => got[t] = instance
    /\ \A t \in Threads : pc[t] \in {"lock", "check", "emit", "render", "release",
                                      "bcheck", "boverlay", "bconnect", "bflag"}
                                => got[t] = 1

C14_Witness ==
    /\ binds = 1
    /\ sent["p1"] = 1
    /\ sent["p2"] = 1
    /\ pc[UI] = "bcheck"
    /\ pc["p1"] = "lock"
    /\ pc["p2"] = "lock"
    /\ created = 1
    /\ \A t \in Threads : got[t] = 1

\* C15: is_country_allowed(c) is false whenever c is on the block list, also
\* when c is on the allow list as well; for a code not blocked it is true
\* when the allow list is empty, and otherwise true exactly when c is on
\* the allow list.
C15_BlockListWins ==
    LET c == countryCheck.code
        r == countryCheck.allowed
    IN  c # None =>
            /\ c \in blocked_countries => ~r
            /\ (c \notin blocked_countries /\ allowed_countries = {}) => r
            /\ (c \notin blocked_countries /\ allowed_countries # {})
                   => (r <=> c \in allowed_countries)

C15_Witness ==
    /\ countryCheck.code \in blocked_countries \cap allowed_countries
    /\ ~countryCheck.allowed

C13_ReleasePersistsPosition ==
    /\ lastRelease.any => lastRelease.saved = lastRelease.pos
    /\ (/\ placed.any
        /\ placed.file.kind = "json"
        /\ ~placed.file.extra
        /\ validate(placed.file.data))
          => placed.pos = <<placed.file.data.position_x, placed.file.data.position_y>>

\* C21: the overlay starts hidden with the hide timer inactive, and whenever
\* the overlay is hidden the hide timer is inactive, so no timeout is
\* delivered to an overlay that is already hidden.
C21_HiddenMeansTimerInactive ==
    ~visible => timerLeft = -1

\* C22: an update that arrives when _auto_hide has run but the fade-out has
\* not finished is shown and stays visible until its own delay has run
\* out: after a display_move the overlay is visible as long as _auto_hide
\* has not run again, which is not before the full delay has passed, and
\* hide() is only ever called for a fade-out started after that update.
C22_FadeOutNeverHidesNewUpdate ==
    /\ (rendered # <<>> /\ autoHides = 0) => visible
    /\ (rendered # <<>> /\ sinceRender < auto_hide_delay) => (visible /\ autoHides = 0)
    /\ hides <= autoHides

C22_Witness ==
    /\ Len(rendered) >= 2
    /\ prior.hid >= 1
    /\ prior.visible
    /\ visible
    /\ anim = "none"
    /\ autoHides = 0
    /\ sinceRender = auto_hide_delay

\* C24: rendering does not move the overlay: with no drag at all, whenever
\* no slide-up animation is running the window is where it was placed when
\* the overlay was constructed, however the display_move calls fall.
C24_RenderKeepsPosition ==
    (placed.any /\ slide = <<>>) => pos = placed.pos

\* The mouse handlers of the overlay, and a display_move call.
MouseStep ==
    \/ \E button \in {"left", "right"} : MousePress(button)
    \/ \E target \in DragTargets : MouseMove(target)
    \/ MouseRelease
RenderStep == rendered' # rendered

\* The position the overlay's configuration object holds, and the one on file.
ConfigPosition ==
    IF overlayConfig = 0 THEN <<>>
    ELSE <<configs[overlayConfig].position_x, configs[overlayConfig].position_y>>
FilePosition == IF file.kind = "json" THEN <<file.data.position_x, file.data.position_y>> ELSE <<>>

\* C23: dragging and the auto-hide cycle do not touch each other: a mouse
\* press, move or release leaves the visibility, the hide timer and
\* current_data as they are, and a display_move leaves the dragging flag and
\* the persisted position (position_x, position_y of the configuration and
\* of the file) as they are.
C23_DragAndRenderIndependent ==
    [][/\ MouseStep => UNCHANGED <<visible, timerLeft, current_data>>
       /\ RenderStep => UNCHANGED <<dragging, ConfigPosition, FilePosition>>]_vars

\* An update was rendered while a drag that had moved the window was going
\* on, with the hide timer running, after an earlier drag was released.
C23_Witness ==
    /\ dragging
    /\ lastRelease.any
    /\ slide # <<>>
    /\ slide[1] \in DragTargets
    /\ pos = <<slide[1][1], slide[1][2] + SlideOffset>>
    /\ timerLeft = DelayTicks

\* C25: while lock_position is true no mouse press, move or release changes
\* the overlay's position; dragging becomes true only in a left press handled
\* while lock_position is false, and it is true only while that left button
\* is down, the left release ending it.
C25_LockStopsDrag ==
    /\ [](dragging => pressed = "left")
    /\ [][/\ (MouseStep /\ lock_position) => pos' = pos
          /\ (dragging' /\ ~dragging) => (MousePress("left") /\ ~lock_position)
          /\ (MouseRelease /\ pressed = "left") => ~dragging']_vars

\* With lock_position true a left press was refused, after an earlier drag
\* had moved the overlay and was released.
C25_Witness ==
    /\ overlayConfig # 0
    /\ lock_position
    /\ pressed = "left"
    /\ ~dragging
    /\ lastRelease.any
    /\ lastRelease.pos \in DragTargets

\* C26: the configuration object the overlay holds is the object
\* save_config writes (the global CONFIG), and so after any get_config,
\* reload_config, drag release and reset_position the file _save_position
\* wrote holds the position the overlay just stored.
C26_OverlayConfigIsGlobal ==
    /\ overlayConfig # 0 => overlayConfig = CONFIG
    /\ lastSave.any => lastSave.saved = lastSave.pos

\* C27: saving from the config editor does not lose a drag: when the overlay
\* was dragged and released after the editor had loaded its fields, the
\* position on file after save_settings is the position that release
\* stored, negative coordinates included.
C27_EditorSaveKeepsDrag ==
    (editor.saved.any /\ editor.saved.drag) => editor.saved.file = editor.saved.stored

\* C28: after display_move(data) the best-move section is shown exactly when
\* data.best_move is non-empty and show_best_move is enabled, and the
\* opponent section exactly when data.opponent_best_move is non-empty and
\* show_opponent_best is enabled: the sections follow the latest update
\* only, whatever the updates before it carried.
C28_SectionsFollowLatestUpdate ==
    rendered # <<>> =>
        LET data == Last(rendered).u IN
        /\ best_move_container <=> (data.best_move \notin {None, ""} /\ show_best_move)
        /\ opp_move_container <=>
              (data.opponent_best_move \notin {None, ""} /\ show_opponent_best)

\* With both sections enabled, an update without an opponent move came
\* after one with an opponent move: the opponent section is hidden, the
\* best-move section shown.
C28_Witness ==
    /\ Len(rendered) >= 2
    /\ show_best_move /\ show_opponent_best
    /\ rendered[Len(rendered) - 1].u.opponent_best_move = "e4"
    /\ Last(rendered).u.opponent_best_move = None
    /\ Last(rendered).u.best_move = "e4"
    /\ best_move_container
    /\ ~opp_move_container

\* C29: binding is monotonic and safe to race with dispatch: _connected never
\* goes back to false (it is true once a connect_overlay call has set it or
\* a dispatch has seen it true); while it is true the overlay reference is
\* set and the signal is connected; so a dispatch that saw _connected true
\* emits into a connected signal and its update gets a display_move call
\* (made or still to come).
C29_BindingMonotonicAndSafe ==
    /\ (boundBy # None \/ accepted # <<>>) => connected
    /\ connected => (overlayRef /\ overlayThread # None /\ nconn >= 1)
    /\ \A t \in Threads : pc[t] = "emit" => (connected /\ nconn >= 1)
    /\ \A u \in Updates(accepted) : TimesRendered(u) + Outstanding(u) >= 1

\* A producer that lost the race once (its earlier update found the
\* dispatcher unbound) is emitting an update that found it bound.
C29_Witness ==
    /\ connected
    /\ \E p \in Producers :
          /\ pc[p] = "emit"
          /\ arg[p] \in Updates(accepted)
          /\ \E u \in unbound : u.src = p

\* The statements of a dispatch call, and those inside `with self._lock`.
InDispatch == {"get", "gnew", "gold", "lock", "check", "emit", "render", "release"}
InLock == {"check", "emit", "render", "release"}

\* C30: the dispatcher cannot deadlock. The lock is held only by a thread
\* inside the with block of dispatch, so every path out of dispatch, the
\* early return of an unbound dispatcher included, has released it; no
\* thread waits for the lock while it holds it; and under a fair scheduler
\* every dispatch call returns and every update whose dispatch found the
\* dispatcher bound is rendered.
C30_NoDeadlock ==
    /\ [](\A t \in Threads : lock = t => pc[t] \in InLock)
    /\ [](\A t \in Threads : pc[t] \in InLock => lock = t)
    /\ [](\A t \in Threads : pc[t] = "lock" => lock # t)
    /\ \A t \in FairThreads : (pc[t] \in InDispatch) ~> (pc[t] = "idle")
    /\ []<>(Updates(accepted) \subseteq RenderedUpdates)

\* Both threads have dispatched and all calls have returned, the lock is
\* free: one call returned early from an unbound dispatcher, the other
\* found it bound and its update was rendered.
C30_Witness ==
    /\ Quiescent
    /\ lock = None
    /\ \A t \in FairThreads : sent[t] >= 1
    /\ unbound # {}
    /\ accepted # <<>>
    /\ Updates(accepted) \subseteq RenderedUpdates

====
